---------------------------- MODULE Spec2Model ----------------------------
(***************************************************************************)
(* A model of the ruva core: the snowflake id allocator                    *)
(* (ruva-core/src/snowflake.rs), the unit of work with its commit hook     *)
(* (event-driven-core/src/unit_of_work.rs), the command service            *)
(* (ruva-core/src/bus_components/handler/command/uow.rs) and the message   *)
(* bus that drains the event queue                                         *)
(* (ruva-core/src/bus_components/messagebus.rs).                           *)
(*                                                                         *)
(* Integers: TLC computes on 32-bit integers, so timestamps stay below     *)
(* MaxTime and the 64-bit layout (timestamp << 22) is computed exactly on  *)
(* these small values; the i64 overflow of timestamp << 22 (a timestamp of *)
(* 2^41 ms and more) is outside the model.                                 *)
(***************************************************************************)
EXTENDS Integers, Sequences, FiniteSets, TLC

\* --------------------------------------------------------------- bounds
\* The wall clocks read values in 0..MaxTime.
MaxTime == 2
\* The wall clock value at which the allocators are constructed.
InitTime == 1
\* Each caller calls generate() at most MaxCalls times.
MaxCalls == 2
\* The callers (threads); each is bound to one allocator instance.
Threads == {1, 2}
\* The allocator instances.
Allocs == {1, 2}
\* Sequence numbers an allocator may already have reached in the
\* millisecond of its construction when the callers start.
InitSequences == {0, 4094}
\* The (datacenter_id, machine_id) pairs one instance is configured with.
PartitionPairs == {<<31, 31>>}
\* The (datacenter_id, machine_id) pairs of an instance under an advancing
\* clock.
Partitions == {<<31, 31>>, <<31, 30>>, <<1, 2>>, <<0, 31>>}
\* The (datacenter_id, machine_id) arguments new() is called with, or the
\* environment variables DATACENTER_ID and MACHINE_ID hold.
NewArgs == {<<1, 1>>, <<31, 31>>, <<32, 0>>, <<0, 32>>, <<33, 40>>}
\* The pairs of distinct (datacenter_id, machine_id) pairs two instances
\* are configured with.
DistinctPartitions ==
    {<<<<1, 2>>, <<2, 1>>>>, <<<<31, 30>>, <<31, 31>>>>, <<<<0, 31>>, <<1, 0>>>>}

\* The command's handler records at most MaxEvents events.
MaxEvents == 3
\* The event handlers of one request enqueue at most MaxCascade events.
MaxCascade == 1

\* A scope is switched to another repository at most MaxSwitch times.
MaxSwitch == 2

\* init_event_handler! is invoked with at most MaxGroups handler groups.
MaxGroups == 2

\* ------------------------------------------------------------ constants
MAX_SEQUENCE == 4095

VARIABLES
    \* ---- the id allocator (snowflake.rs)
    now,            \* now[a]: the wall clock, in ms since the epoch, of a's host
    sequence_num,   \* sequence_num[a]: the atomic word, last_ts << 12 | seq
    datacenter_id,  \* datacenter_id[a]
    machine_id,     \* machine_id[a]
    owner,          \* owner[t]: the allocator thread t calls
    pc,             \* pc[t]: where thread t is in generate()
    timestamp,      \* timestamp[t]: the local of generate()
    current,        \* current[t]: the word loaded by generate()
    new_id,         \* new_id[t]: the word generate() tries to install
    seen,           \* seen[t]: how many calls had returned when t's latest call began
    lo,             \* lo[t]: the smallest clock value t's latest call has read
    log             \* log[a]: the ids a has returned, in the order of return

VARIABLES
    \* ---- one request: the command service, its unit of work, the bus
    bpc,            \* where the request's task is
    executor,       \* the state of the scope's executor (its transaction)
    tx_rows,        \* repository mutations written in the open transaction
    tx_outbox,      \* outbox rows written in the open transaction
    db_rows,        \* repository mutations an external reader sees
    db_outbox,      \* outbox rows an external reader sees
    events,         \* the events the repository has collected
    hook_i,         \* _commit_hook: the index of the event it is at
    outboxes,       \* _commit_hook: its local vector of outbox records
    sink,           \* the batches handed to the Outbox Sink (IOutBox::add)
    event_queue,    \* ContextManager.event_queue
    result,         \* what the command's handler returned
    payload,        \* the event of the handler's StopSentinelWithEvent
    returned,       \* what execute() returned
    bus_result,     \* what execute_and_wait, or execute_and_forget, returned
    msg,            \* handle_event: msg
    top,            \* handle_event: TRUE in the call made by execute_and_wait
    hidx,           \* handle_event: the index of the handler it is at
    futs,           \* handle_event: the futures of an Async group
    calls,          \* the handler calls made for msg so far, in order
    made,           \* the number of events created so far
    spawned,        \* the number of events the event handlers have enqueued
    trace,          \* the calls made so far, in order
    join_handler,   \* the task execute_and_forget spawned, and how it ended
    waited,         \* what wait_until_event_processing_done returned
    ctx_lock,       \* who holds the RwLock of the ContextManager
    repository,     \* the repository the scope is bound to: 0 is R, then DR, ..
    \* ---- init_event_handler!
    invocation,     \* the handler groups the macro is invoked with
    expanded,       \* the number of groups its initializer has inserted
    _map,           \* the TEventHandler the initializer builds
    \* ---- SnowFlake on the wire
    flake,          \* the SnowFlake that is serialized: an i64 in four limbs
    wire,           \* what the deserializer reads: nothing yet, text, a number
    parsed          \* what deserialize returned: nothing yet, Ok(id) or Err

allocVars == <<now, sequence_num, datacenter_id, machine_id, owner, pc,
               timestamp, current, new_id, seen, lo, log>>

txVars == <<executor, tx_rows, tx_outbox, db_rows, db_outbox>>
hookVars == <<events, hook_i, outboxes, sink>>
drainVars == <<msg, top, hidx, futs, calls>>
forgetVars == <<join_handler, waited>>
macroVars == <<invocation, expanded, _map>>
busVars == <<bpc, txVars, hookVars, event_queue, result, payload, returned,
             bus_result, drainVars, made, spawned, trace, forgetVars,
             ctx_lock, repository, macroVars>>

serdeVars == <<flake, wire, parsed>>

vars == <<allocVars, busVars, serdeVars>>

\* ------------------------------------------------------------ bit work
RECURSIVE BitOr(_, _)
\* a | b on naturals.
BitOr(a, b) ==
    IF a = 0 THEN b
    ELSE IF b = 0 THEN a
    ELSE (IF a % 2 = 1 \/ b % 2 = 1 THEN 1 ELSE 0) + 2 * BitOr(a \div 2, b \div 2)

\* a | b | c | d, each operand evaluated once.
BitOr4(a, b, c, d) ==
    CHOOSE r \in {BitOr(p, q) :
                     p \in {BitOr(w, x) : w \in {a}, x \in {b}},
                     q \in {BitOr(y, z) : y \in {c}, z \in {d}}} : TRUE

\* x << n on naturals.
Shl(x, n) == x * (2 ^ n)

\* The timestamp field of an id: id >> 22.
IdTimestamp(id) == id \div (2 ^ 22)
\* The sequence field of an id: id & 0xFFF.
IdSequence(id) == id % 4096
\* The two partition fields of an id: (id >> 12) & 0x3FF.
IdPartition(id) == (id \div 4096) % 1024

\* ------------------------------------------------- the id allocator
\* with_epoch: the word of a new allocator is timestamp << 12.
with_epoch(ts) == Shl(ts, 12)

get_snowflake_machine_dropped(a, seq_num, ts) ==
    BitOr4(Shl(ts, 22), Shl(datacenter_id[a], 17), 0, seq_num)

get_snowflake_datacenter_low(a, seq_num, ts) ==
    BitOr4(Shl(ts, 22), Shl(datacenter_id[a], 16), Shl(machine_id[a], 12), seq_num)

\* get_snowflake: timestamp << 22 | datacenter_id << 17 | machine_id << 12 | seq_num
get_snowflake(a, seq_num, ts) ==
    BitOr4(Shl(ts, 22), Shl(datacenter_id[a], 17), Shl(machine_id[a], 12), seq_num)

\* last_ts = current >> 12; last_seq = current & 0xFFF
last_ts(cur) == cur \div 4096
last_seq(cur) == cur % 4096

clock_behind_ignored(cur, ts) == FALSE

\* if last_ts > timestamp { spin_loop(); continue; }
clock_behind(cur, ts) == last_ts(cur) > ts

\* next_seq = (last_seq.wrapping_add(1) & MAX_SEQUENCE) as i16
next_seq(cur) == (last_seq(cur) + 1) % (MAX_SEQUENCE + 1)

sequence_exhausted_missed(cur, ts) == FALSE

\* The sequence has wrapped: generate() goes to race_next_milli.
sequence_exhausted(cur, ts) == last_ts(cur) = ts /\ next_seq(cur) = 0

new_word_no_reset(cur, ts) == Shl(last_ts(cur), 12) + next_seq(cur)

\* (new_ts, new_seq) when the sequence has not wrapped, packed as
\* new_ts << 12 | new_seq.
new_word(cur, ts) ==
    IF last_ts(cur) = ts THEN Shl(ts, 12) + next_seq(cur) ELSE Shl(ts, 12)

compare_exchange_blind(word, cur) == TRUE

\* compare_exchange(current, new_id) succeeds when the word is still current.
compare_exchange(word, cur) == word = cur

Min(x, y) == IF x < y THEN x ELSE y

\* The number of calls of thread t that have returned.
Calls(t) == Cardinality({i \in DOMAIN log[owner[t]] : log[owner[t]][i].thread = t})

\* A call of generate() begins: its first reading of the clock.
generate_call(t) ==
    /\ pc[t] = "idle"
    /\ Calls(t) < MaxCalls
    /\ timestamp' = [timestamp EXCEPT ![t] = now[owner[t]]]
    /\ pc' = [pc EXCEPT ![t] = "load"]
    /\ seen' = [seen EXCEPT ![t] = Len(log[owner[t]])]
    /\ lo' = [lo EXCEPT ![t] = now[owner[t]]]
    /\ UNCHANGED <<now, sequence_num, datacenter_id, machine_id, owner,
                   current, new_id, log>>
    /\ UNCHANGED <<busVars, serdeVars>>

\* let timestamp = current_time_in_milli(self.epoch);
generate_time(t) ==
    /\ pc[t] = "time"
    /\ timestamp' = [timestamp EXCEPT ![t] = now[owner[t]]]
    /\ lo' = [lo EXCEPT ![t] = Min(lo[t], now[owner[t]])]
    /\ pc' = [pc EXCEPT ![t] = "load"]
    /\ UNCHANGED <<now, sequence_num, datacenter_id, machine_id, owner,
                   current, new_id, seen, log>>
    /\ UNCHANGED <<busVars, serdeVars>>

\* let current = self.sequence_num.load(Relaxed); and the choice of
\* (new_ts, new_seq) that follows it.
generate_load(t) ==
    LET cur == sequence_num[owner[t]] IN
    /\ pc[t] = "load"
    /\ IF clock_behind(cur, timestamp[t])
       THEN /\ pc' = [pc EXCEPT ![t] = "time"]
            /\ timestamp' = [timestamp EXCEPT ![t] = 0]
            /\ UNCHANGED <<current, new_id>>
       ELSE IF sequence_exhausted(cur, timestamp[t])
       THEN /\ pc' = [pc EXCEPT ![t] = "race"]
            /\ current' = [current EXCEPT ![t] = cur]
            /\ UNCHANGED <<timestamp, new_id>>
       ELSE /\ pc' = [pc EXCEPT ![t] = "cas"]
            /\ current' = [current EXCEPT ![t] = cur]
            /\ new_id' = [new_id EXCEPT ![t] = new_word(cur, timestamp[t])]
            /\ UNCHANGED timestamp
    /\ UNCHANGED <<now, sequence_num, datacenter_id, machine_id, owner,
                   seen, lo, log>>
    /\ UNCHANGED <<busVars, serdeVars>>

milli_advanced_unchecked(latest_time_millis, ts) == TRUE

milli_advanced_inverted(latest_time_millis, ts) == latest_time_millis < ts

\* if latest_time_millis > timestamp { return latest_time_millis; }
milli_advanced(latest_time_millis, ts) == latest_time_millis > ts

\* race_next_milli: one turn of its loop.
race_next_milli(t) ==
    LET latest_time_millis == now[owner[t]] IN
    /\ pc[t] = "race"
    /\ lo' = [lo EXCEPT ![t] = Min(lo[t], latest_time_millis)]
    /\ IF milli_advanced(latest_time_millis, timestamp[t])
       THEN /\ new_id' = [new_id EXCEPT ![t] = Shl(latest_time_millis, 12)]
            /\ pc' = [pc EXCEPT ![t] = "cas"]
       ELSE UNCHANGED <<new_id, pc>>
    /\ UNCHANGED <<now, sequence_num, datacenter_id, machine_id, owner,
                   timestamp, current, seen, log>>
    /\ UNCHANGED <<busVars, serdeVars>>

\* self.sequence_num.compare_exchange(current, new_id, ..): Ok returns the
\* id, Err goes round the loop again.
generate_compare_exchange(t) ==
    LET a == owner[t] IN
    /\ pc[t] = "cas"
    /\ IF compare_exchange(sequence_num[a], current[t])
       THEN /\ sequence_num' = [sequence_num EXCEPT ![a] = new_id[t]]
            /\ log' = [log EXCEPT ![a] = Append(@,
                   [thread |-> t,
                    id |-> get_snowflake(a, last_seq(new_id[t]), last_ts(new_id[t]))])]
            /\ pc' = [pc EXCEPT ![t] = "idle"]
       ELSE /\ pc' = [pc EXCEPT ![t] = "time"]
            /\ UNCHANGED <<sequence_num, log>>
    /\ timestamp' = [timestamp EXCEPT ![t] = 0]
    /\ current' = [current EXCEPT ![t] = 0]
    /\ new_id' = [new_id EXCEPT ![t] = 0]
    /\ UNCHANGED <<now, datacenter_id, machine_id, owner, seen, lo>>
    /\ UNCHANGED <<busVars, serdeVars>>

\* An allocator some thread calls.
InUse(a) == \E t \in Threads : owner[t] = a

\* The wall clock of a's host advances by one millisecond.
clock_tick(a) ==
    /\ InUse(a)
    /\ now[a] < MaxTime
    /\ now' = [now EXCEPT ![a] = now[a] + 1]
    /\ UNCHANGED <<sequence_num, datacenter_id, machine_id, owner, pc,
                   timestamp, current, new_id, seen, lo, log>>
    /\ UNCHANGED <<busVars, serdeVars>>

\* The wall clock of a's host is set back (SystemTime is not monotonic).
clock_back(a) ==
    /\ InUse(a)
    /\ now[a] > 0
    /\ now' = [now EXCEPT ![a] = now[a] - 1]
    /\ UNCHANGED <<sequence_num, datacenter_id, machine_id, owner, pc,
                   timestamp, current, new_id, seen, lo, log>>
    /\ UNCHANGED <<busVars, serdeVars>>

\* What every initial state shares: the allocators are constructed at
\* InitTime and no call has begun.
InitCallers ==
    /\ now = [a \in Allocs |-> InitTime]
    /\ pc = [t \in Threads |-> "idle"]
    /\ timestamp = [t \in Threads |-> 0]
    /\ current = [t \in Threads |-> 0]
    /\ new_id = [t \in Threads |-> 0]
    /\ seen = [t \in Threads |-> 0]
    /\ lo = [t \in Threads |-> 0]
    /\ log = [a \in Allocs |-> <<>>]

\* One allocator instance called by every thread; it has served s calls
\* within the millisecond of its construction, s in InitSequences.
InitAlloc ==
    /\ owner = [t \in Threads |-> 1]
    /\ \E p \in PartitionPairs :
          /\ datacenter_id = [a \in Allocs |-> p[1]]
          /\ machine_id = [a \in Allocs |-> p[2]]
    /\ \E s \in InitSequences :
          sequence_num = [a \in Allocs |-> with_epoch(InitTime) + s]
    /\ InitCallers

\* Two allocator instances with distinct partition pairs, one thread each.
InitPair ==
    /\ owner = [t \in Threads |-> t]
    /\ \E p \in DistinctPartitions :
          /\ datacenter_id = [a \in Allocs |-> p[a][1]]
          /\ machine_id = [a \in Allocs |-> p[a][2]]
    /\ \E s \in InitSequences :
          sequence_num = [a \in Allocs |-> with_epoch(InitTime) + s]
    /\ InitCallers

\* ------------------------------------------ events, outbox, registry
\* The kinds of event of the application: a topic and the two flags of
\* TEvent.
EventKinds ==
    { [topic |-> "OrderCreated", ext |-> TRUE, int |-> TRUE],
      [topic |-> "OrderAudited", ext |-> TRUE, int |-> FALSE],
      [topic |-> "StockReserved", ext |-> FALSE, int |-> TRUE],
      [topic |-> "Unregistered", ext |-> FALSE, int |-> TRUE],
      [topic |-> "Ignored", ext |-> FALSE, int |-> FALSE] }

\* The kinds of event a StopSentinelWithEvent carries.
CompensationKinds == {k \in EventKinds : k.ext /\ k.int}

\* The n-th event created, of kind k.
Event(n, k) ==
    [n |-> n, topic |-> k.topic, ext |-> k.ext, int |-> k.int, sentinel |-> FALSE]

\* The n-th event created, of kind k, made to be carried by a
\* StopSentinelWithEvent.
SentinelEvent(n, k) == [Event(n, k) EXCEPT !.sentinel = TRUE]

NoEvent == [n |-> 0, topic |-> "", ext |-> FALSE, int |-> FALSE, sentinel |-> FALSE]

\* TEvent::externally_notifiable, TEvent::internally_notifiable
externally_notifiable(e) == e.ext
internally_notifiable(e) == e.int

\* TEvent::outbox, OutBox::new: the record of an event, processed = false.
outbox(e) == [ev |-> e.n, topic |-> e.topic, processed |-> FALSE]

\* EVENT_HANDLERS (init_event_handler!): the handler group of each
\* registered topic.
EVENT_HANDLERS ==
    [topic \in {"OrderCreated", "StockReserved"} |->
        IF topic = "OrderCreated"
        THEN [kind |-> "Sync", n |-> 2]
        ELSE [kind |-> "Async", n |-> 2]]

\* The most handlers a group has.
Handlers == 1..2

\* What a handler returns: Ok, an error, StopSentinel, StopSentinelWithEvent.
Outcomes == {"ok", "error", "stop", "stop_event"}

\* One entry of the trace.
T(op, n, ok) == [op |-> op, ev |-> n, ok |-> ok]

\* --------------------------------------- the command service: execute
begin_result_ignored(ok) == TRUE

\* The ? of dep.begin().await?: execute() goes on when begin returned Ok.
begin_passed(ok) == ok

\* dep.begin().await?  (UnitOfWork::begin: executor.begin())
execute_begin ==
    /\ bpc = "begin"
    /\ \E ok \in BOOLEAN :
          /\ trace' = Append(trace, T("begin", 0, ok))
          /\ executor' = IF ok THEN "begun" ELSE executor
          /\ IF begin_passed(ok)
             THEN /\ bpc' = "handler"
                  /\ UNCHANGED returned
             ELSE /\ returned' = "begin_error"
                  /\ bpc' = "bus"
    /\ UNCHANGED <<tx_rows, tx_outbox, db_rows, db_outbox, hookVars,
                   event_queue, result, payload, bus_result, drainVars,
                   made, spawned>>
    /\ UNCHANGED <<forgetVars, ctx_lock>>
    /\ UNCHANGED <<repository, macroVars, serdeVars>>
    /\ UNCHANGED allocVars

\* The command's handler uses the repository: one mutation written through
\* the scope's executor, and the event it produces collected.
repository_op ==
    /\ bpc = "handler"
    /\ Len(events) < MaxEvents
    /\ \E k \in EventKinds :
          /\ events' = Append(events, Event(made + 1, k))
          /\ tx_rows' = tx_rows \cup {made + 1}
          /\ trace' = Append(trace, T("repository", made + 1, TRUE))
    /\ made' = made + 1
    /\ UNCHANGED <<bpc, executor, tx_outbox, db_rows, db_outbox, hook_i,
                   outboxes, sink, event_queue, result, payload, returned,
                   bus_result, drainVars, spawned>>
    /\ UNCHANGED <<forgetVars, ctx_lock>>
    /\ UNCHANGED <<repository, macroVars, serdeVars>>
    /\ UNCHANGED allocVars

\* TRepository::get_events: the collected events of the repository are
\* handed over.
get_events(evs) == evs

\* TRepository::set_events: the collected events of the repository are
\* replaced by evs.
set_events(held, evs) == evs

transplanted_none(evs) == <<>>

\* let mut repo = DR::new(..); repo.set_events(self.repository().get_events());
\* the events of the new, empty repository.
transplanted(evs) == set_events(<<>>, get_events(evs))

\* uow.switch_repository::<DR>(): the scope is consumed and a scope with the
\* same executor and context, and a new repository, is returned.
switch_repository ==
    /\ bpc = "handler"
    /\ repository < MaxSwitch
    /\ repository' = repository + 1
    /\ events' = transplanted(events)
    /\ UNCHANGED <<bpc, txVars, hook_i, outboxes, sink, event_queue, result,
                   payload, returned, bus_result, drainVars, made, spawned,
                   trace>>
    /\ UNCHANGED <<forgetVars, ctx_lock, macroVars, serdeVars>>
    /\ UNCHANGED allocVars

after_handler_always_commit(r) == "hook"

\* match result { Ok(val) => commit .., Err(err) => rollback .. }
after_handler(r) == IF r = "ok" THEN "hook" ELSE "rollback"

\* D1::get_handler().call(cmd, ..).await returns.
handler_return ==
    /\ bpc = "handler"
    /\ \E r \in Outcomes :
          /\ result' = r
          /\ trace' = Append(trace, T("handler", 0, r = "ok"))
          /\ bpc' = after_handler(r)
          /\ IF r = "stop_event"
             THEN /\ \E k \in CompensationKinds : payload' = SentinelEvent(made + 1, k)
                  /\ made' = made + 1
             ELSE UNCHANGED <<payload, made>>
    /\ hook_i' = 1
    /\ UNCHANGED <<txVars, events, outboxes, sink, event_queue, returned,
                   bus_result, drainVars, spawned>>
    /\ ctx_lock' = IF bpc' = "hook" THEN "hook" ELSE ctx_lock
    /\ UNCHANGED forgetVars
    /\ UNCHANGED <<repository, macroVars, serdeVars>>
    /\ UNCHANGED allocVars

to_outbox_unless_internal(e) == externally_notifiable(e) /\ ~internally_notifiable(e)

\* if e.externally_notifiable() { outboxes.push(e.outbox()); }
to_outbox(e) == externally_notifiable(e)

\* if e.internally_notifiable() { event_sender.send(e.message_clone()) }
to_queue(e) == internally_notifiable(e)

\* _commit_hook: one turn of its loop over the collected events.
_commit_hook_event ==
    /\ bpc = "hook"
    /\ ctx_lock = "hook"
    /\ hook_i <= Len(events)
    /\ LET e == events[hook_i] IN
          /\ outboxes' = IF to_outbox(e) THEN Append(outboxes, outbox(e)) ELSE outboxes
          /\ event_queue' = IF to_queue(e) THEN Append(event_queue, e) ELSE event_queue
          /\ trace' = Append(trace, T("hook_event", e.n, TRUE))
    /\ hook_i' = hook_i + 1
    /\ UNCHANGED <<bpc, txVars, events, sink, result, payload, returned,
                   bus_result, drainVars, made, spawned>>
    /\ UNCHANGED <<forgetVars, ctx_lock>>
    /\ UNCHANGED <<repository, macroVars, serdeVars>>
    /\ UNCHANGED allocVars

add_executor_fresh == "fresh"

\* O::add(self.executor(), outboxes): the executor the hook hands to the
\* Outbox Sink is the scope's own.
add_executor == "scope"

\* IOutBox::add: the rows are written through the executor it is given: in
\* the open transaction of the scope's executor, or at once on a connection
\* with no transaction.  The pair (rows in the transaction, rows visible).
IOutBox_add(through, rows) ==
    IF through = "scope"
    THEN <<tx_outbox \o rows, db_outbox>>
    ELSE <<tx_outbox, db_outbox \o rows>>

hook_result_ignored(ok) == TRUE

\* self._commit_hook::<O>().await?;  commit() goes on when the hook is Ok.
hook_passed(ok) == ok

\* _commit_hook: O::add(self.executor(), outboxes).await, the hook's result,
\* and the ? of commit() on it.
_commit_hook_add ==
    /\ bpc = "hook"
    /\ ctx_lock = "hook"
    /\ hook_i > Len(events)
    /\ sink' = Append(sink, outboxes)
    /\ \E ok \in BOOLEAN :
          /\ trace' = Append(trace, T("outbox_add", 0, ok))
          /\ IF ok
             THEN /\ tx_outbox' = IOutBox_add(add_executor, outboxes)[1]
                  /\ db_outbox' = IOutBox_add(add_executor, outboxes)[2]
             ELSE UNCHANGED <<tx_outbox, db_outbox>>
          /\ IF hook_passed(ok)
             THEN /\ bpc' = "commit"
                  /\ UNCHANGED returned
             ELSE /\ returned' = "outbox_error"
                  /\ bpc' = "bus"
    /\ UNCHANGED <<executor, tx_rows, db_rows, events, hook_i, outboxes,
                   event_queue, result, payload, bus_result, drainVars,
                   made, spawned>>
    /\ ctx_lock' = "free"
    /\ UNCHANGED forgetVars
    /\ UNCHANGED <<repository, macroVars, serdeVars>>
    /\ UNCHANGED allocVars

\* _commit: executor.commit().await, and the ? of execute() on commit().
\* Ok makes everything written in the transaction visible at once.
_commit ==
    /\ bpc = "commit"
    /\ \E ok \in BOOLEAN :
          /\ trace' = Append(trace, T("executor_commit", 0, ok))
          /\ IF ok
             THEN /\ db_rows' = db_rows \cup tx_rows
                  /\ db_outbox' = db_outbox \o tx_outbox
                  /\ tx_rows' = {}
                  /\ tx_outbox' = <<>>
                  /\ executor' = "committed"
                  /\ bpc' = "close"
                  /\ UNCHANGED returned
             ELSE /\ executor' = "failed"
                  /\ returned' = "commit_error"
                  /\ bpc' = "bus"
                  /\ UNCHANGED <<db_rows, db_outbox, tx_rows, tx_outbox>>
    /\ UNCHANGED <<hookVars, event_queue, result, payload, bus_result,
                   drainVars, made, spawned>>
    /\ UNCHANGED <<forgetVars, ctx_lock>>
    /\ UNCHANGED <<repository, macroVars, serdeVars>>
    /\ UNCHANGED allocVars

\* dep.close().await; Ok(val)
close_committed ==
    /\ bpc = "close"
    /\ trace' = Append(trace, T("close", 0, TRUE))
    /\ returned' = "ok"
    /\ bpc' = "bus"
    /\ UNCHANGED <<txVars, hookVars, event_queue, result, payload,
                   bus_result, drainVars, made, spawned>>
    /\ UNCHANGED <<forgetVars, ctx_lock>>
    /\ UNCHANGED <<repository, macroVars, serdeVars>>
    /\ UNCHANGED allocVars

\* dep.rollback().await?  (UnitOfWork::rollback: executor.rollback())
rollback ==
    /\ bpc = "rollback"
    /\ \E ok \in BOOLEAN :
          /\ trace' = Append(trace, T("rollback", 0, ok))
          /\ IF ok
             THEN /\ tx_rows' = {}
                  /\ tx_outbox' = <<>>
                  /\ executor' = "rolledback"
                  /\ bpc' = "close_failed"
                  /\ UNCHANGED returned
             ELSE /\ returned' = "rollback_error"
                  /\ bpc' = "bus"
                  /\ UNCHANGED <<tx_rows, tx_outbox, executor>>
    /\ UNCHANGED <<db_rows, db_outbox, hookVars, event_queue, result,
                   payload, bus_result, drainVars, made, spawned>>
    /\ UNCHANGED <<forgetVars, ctx_lock>>
    /\ UNCHANGED <<repository, macroVars, serdeVars>>
    /\ UNCHANGED allocVars

\* dep.close().await; then the error is returned, or, for
\* StopSentinelWithEvent, its event is set as the current events.
close_failed ==
    /\ bpc = "close_failed"
    /\ trace' = Append(trace, T("close", 0, TRUE))
    /\ IF result = "stop_event"
       THEN /\ bpc' = "internal"
            /\ UNCHANGED returned
       ELSE /\ returned' = result
            /\ bpc' = "bus"
    /\ UNCHANGED <<txVars, hookVars, event_queue, result, payload,
                   bus_result, drainVars, made, spawned>>
    /\ UNCHANGED <<forgetVars, ctx_lock>>
    /\ UNCHANGED <<repository, macroVars, serdeVars>>
    /\ UNCHANGED allocVars

\* dep.process_internal_events().await?: the current event goes to the
\* queue of the context, or the call fails and its error is returned.
process_internal_events ==
    /\ bpc = "internal"
    /\ ctx_lock = "free"
    /\ \E ok \in BOOLEAN :
          /\ trace' = Append(trace, T("internal", payload.n, ok))
          /\ IF ok
             THEN /\ event_queue' = Append(event_queue, payload)
                  /\ bpc' = "external"
                  /\ UNCHANGED returned
             ELSE /\ returned' = "internal_error"
                  /\ bpc' = "bus"
                  /\ UNCHANGED event_queue
    /\ UNCHANGED <<txVars, hookVars, result, payload, bus_result, drainVars,
                   made, spawned>>
    /\ UNCHANGED <<forgetVars, ctx_lock>>
    /\ UNCHANGED <<repository, macroVars, serdeVars>>
    /\ UNCHANGED allocVars

\* dep.process_external_events().await?: the current event goes to the
\* Outbox Sink on a connection with no transaction; then
\* Err(StopSentinelWithEvent(event)) is returned.
process_external_events ==
    /\ bpc = "external"
    /\ sink' = Append(sink, <<outbox(payload)>>)
    /\ \E ok \in BOOLEAN :
          /\ trace' = Append(trace, T("external", payload.n, ok))
          /\ IF ok
             THEN /\ tx_outbox' = IOutBox_add("fresh", <<outbox(payload)>>)[1]
                  /\ db_outbox' = IOutBox_add("fresh", <<outbox(payload)>>)[2]
                  /\ returned' = "stop_event"
             ELSE /\ returned' = "outbox_error"
                  /\ UNCHANGED <<tx_outbox, db_outbox>>
    /\ bpc' = "bus"
    /\ UNCHANGED <<executor, tx_rows, db_rows, events, hook_i, outboxes,
                   event_queue, result, payload, bus_result, drainVars,
                   made, spawned>>
    /\ UNCHANGED <<forgetVars, ctx_lock>>
    /\ UNCHANGED <<repository, macroVars, serdeVars>>
    /\ UNCHANGED allocVars

\* ------------------------------------------------ the bus: the drain
pop_back(q) == Len(q)

\* event_queue.pop_front(): the place in the queue the event is taken from.
pop_front(q) == 1

\* The queue q without the event at place i.
Without(q, i) == SubSeq(q, 1, i - 1) \o SubSeq(q, i + 1, Len(q))

pop_guard_kept == "pop"

\* let event = context_manager.write().await.event_queue.pop_front(): the
\* write guard is a temporary of the let statement and is dropped at its
\* end, before handle_event is called; what the lock is left as.
pop_guard == "free"

drain_whatever(r) == TRUE

drain_compensation(r) == r \in {"ok", "stop_event"}

\* let res = self.command_handler(..).execute().await?;
execute_passed(r) == r = "ok"

\* execute_and_wait after execute(): the ? on its result, and the first
\* event taken from the queue.
execute_and_wait ==
    /\ bpc = "bus"
    /\ IF ~execute_passed(returned)
       THEN /\ bus_result' = returned
            /\ bpc' = "done"
            /\ UNCHANGED <<event_queue, msg, top, trace, ctx_lock>>
       ELSE IF event_queue = <<>>
       THEN /\ ctx_lock = "free"
            /\ bus_result' = returned
            /\ bpc' = "done"
            /\ UNCHANGED <<event_queue, msg, top, trace, ctx_lock>>
       ELSE /\ ctx_lock = "free"
            /\ ctx_lock' = pop_guard
            /\ msg' = event_queue[pop_front(event_queue)]
            /\ event_queue' = Without(event_queue, pop_front(event_queue))
            /\ top' = TRUE
            /\ trace' = Append(trace, T("pop", event_queue[pop_front(event_queue)].n, TRUE))
            /\ bpc' = "lookup"
            /\ UNCHANGED bus_result
    /\ UNCHANGED <<txVars, hookVars, result, payload, returned, hidx, futs,
                   calls, made, spawned>>
    /\ UNCHANGED forgetVars
    /\ UNCHANGED <<repository, macroVars, serdeVars>>
    /\ UNCHANGED allocVars

\* One entry of calls: what happened (the handler was called, its future
\* was polled first, or what it returned) and the index of the handler.
Call(op, h) == [op |-> op, h |-> h]

\* The handle_event call made by the entry point returns r, Ok for every
\* nested failure: execute_and_wait returns an error through its ? and
\* Ok(res) otherwise; the task execute_and_forget spawned ends with r.
handle_event_returns(r) ==
    IF join_handler = "running"
    THEN /\ join_handler' = r
         /\ UNCHANGED bus_result
    ELSE /\ bus_result' = IF r = "ok" THEN returned ELSE r
         /\ UNCHANGED join_handler

\* handle_event: event_handler.get(&msg.metadata().topic), NotFound for an
\* unregistered topic; for an Async group every handler is called, which
\* makes its future.
handle_event_lookup ==
    /\ bpc = "lookup"
    /\ IF msg.topic \notin DOMAIN EVENT_HANDLERS
       THEN /\ trace' = Append(trace, T("not_found", msg.n, FALSE))
            /\ handle_event_returns(IF top THEN "not_found" ELSE "ok")
            /\ bpc' = "done"
            /\ msg' = NoEvent
            /\ calls' = <<>>
            /\ UNCHANGED <<hidx, futs>>
       ELSE IF EVENT_HANDLERS[msg.topic].kind = "Sync"
       THEN /\ hidx' = 1
            /\ calls' = <<>>
            /\ bpc' = "sync"
            /\ UNCHANGED <<trace, bus_result, join_handler, msg, futs>>
       ELSE /\ futs' = [h \in Handlers |->
                          IF h <= EVENT_HANDLERS[msg.topic].n THEN "created" ELSE "none"]
            /\ calls' = [h \in 1..EVENT_HANDLERS[msg.topic].n |-> Call("call", h)]
            /\ bpc' = "async"
            /\ UNCHANGED <<trace, bus_result, join_handler, msg, hidx>>
    /\ UNCHANGED <<txVars, hookVars, event_queue, result, payload, returned,
                   top, made, spawned, waited, ctx_lock>>
    /\ UNCHANGED <<repository, macroVars, serdeVars>>
    /\ UNCHANGED allocVars

\* What a handler may leave in the queue while it runs: nothing, or one
\* more event (within MaxCascade).
Cascades ==
    {<<>>} \cup
    (IF spawned < MaxCascade
     THEN {<<Event(made + 1, k)>> : k \in {k \in EventKinds : k.int}}
     ELSE {})

\* The events a handler may return in StopSentinelWithEvent (within
\* MaxCascade): an event of any kind.
Sentinels ==
    IF spawned < MaxCascade
    THEN {<<SentinelEvent(made + 1, k)>> : k \in EventKinds}
    ELSE {}

\* context_manager.write().await.push_back(event)
push_back(q, e) == q \o e

breaks_only_with_event(out) == out = "stop_event"

breaks_on_any_error(out) == out # "ok"

\* match err.into(): StopSentinel and StopSentinelWithEvent break the loop
\* over the handlers, any other error is logged and the loop goes on.
breaks(out) == out \in {"stop", "stop_event"}

\* handle_event, a Sync group: the handler at hidx is called and returns.
handle_event_sync ==
    /\ bpc = "sync"
    /\ \E out \in Outcomes : \E more \in Cascades \cup Sentinels :
          /\ out = "stop_event" => more \in Sentinels
          /\ out = "ok" => more \in Cascades
          /\ out \in {"error", "stop"} => more = <<>>
          /\ more # <<>> => ctx_lock = "free"
          /\ calls' = Append(calls, Call(out, hidx))
          /\ event_queue' = push_back(event_queue, more)
          /\ made' = made + Len(more)
          /\ spawned' = spawned + Len(more)
          /\ IF breaks(out) \/ hidx = EVENT_HANDLERS[msg.topic].n
             THEN /\ bpc' = "pop"
                  /\ hidx' = 0
             ELSE /\ hidx' = hidx + 1
                  /\ UNCHANGED bpc
    /\ UNCHANGED <<txVars, hookVars, result, payload, returned, bus_result,
                   msg, top, futs, trace>>
    /\ UNCHANGED <<forgetVars, ctx_lock>>
    /\ UNCHANGED <<repository, macroVars, serdeVars>>
    /\ UNCHANGED allocVars

\* try_join_all polls the futures in order: the future of handler h is
\* polled for the first time.
handle_event_async_start(h) ==
    /\ bpc = "async"
    /\ futs[h] = "created"
    /\ \A k \in Handlers : k < h => futs[k] # "created"
    /\ futs' = [futs EXCEPT ![h] = "running"]
    /\ calls' = Append(calls, Call("start", h))
    /\ UNCHANGED <<bpc, txVars, hookVars, event_queue, result, payload,
                   returned, bus_result, msg, top, hidx, made, spawned, trace>>
    /\ UNCHANGED <<forgetVars, ctx_lock>>
    /\ UNCHANGED <<repository, macroVars, serdeVars>>
    /\ UNCHANGED allocVars

after_join_propagate(out) == IF out = "ok" THEN "pop" ELSE "done"

\* if let Err(err) = try_join_all(futures).await { log }: whatever the join
\* returned, handle_event goes on to its pop of the next event.
after_join(out) == "pop"

\* The future of handler h is ready: with Ok the join goes on, with an
\* error try_join_all returns it at once and the other futures are dropped.
handle_event_async_ready(h) ==
    /\ bpc = "async"
    /\ futs[h] = "running"
    /\ \E out \in Outcomes : \E more \in Cascades :
          /\ out # "ok" => more = <<>>
          /\ more # <<>> => ctx_lock = "free"
          /\ calls' = Append(calls, Call(out, h))
          /\ event_queue' = event_queue \o more
          /\ made' = made + Len(more)
          /\ spawned' = spawned + Len(more)
          /\ LET after == [futs EXCEPT ![h] = "done"] IN
             IF out = "ok" /\ \E k \in Handlers : after[k] \in {"created", "running"}
             THEN /\ futs' = after
                  /\ UNCHANGED bpc
             ELSE /\ futs' = [k \in Handlers |-> "none"]
                  /\ bpc' = after_join(out)
    /\ UNCHANGED <<txVars, hookVars, result, payload, returned, bus_result,
                   msg, top, hidx, trace>>
    /\ UNCHANGED <<forgetVars, ctx_lock>>
    /\ UNCHANGED <<repository, macroVars, serdeVars>>
    /\ UNCHANGED allocVars

\* handle_event, the recursive case: the next event is taken from the
\* queue and handled; with none left every call returns Ok.
handle_event_pop ==
    /\ bpc = "pop"
    /\ ctx_lock = "free"
    /\ IF event_queue # <<>>
       THEN /\ ctx_lock' = pop_guard
            /\ msg' = event_queue[pop_front(event_queue)]
            /\ event_queue' = Without(event_queue, pop_front(event_queue))
            /\ top' = FALSE
            /\ trace' = Append(trace, T("pop", event_queue[pop_front(event_queue)].n, TRUE))
            /\ bpc' = "lookup"
            /\ UNCHANGED <<bus_result, join_handler>>
       ELSE /\ handle_event_returns("ok")
            /\ bpc' = "done"
            /\ msg' = NoEvent
            /\ UNCHANGED <<event_queue, top, trace, ctx_lock>>
    /\ UNCHANGED <<txVars, hookVars, result, payload, returned, hidx, futs,
                   calls, made, spawned, waited>>
    /\ UNCHANGED <<repository, macroVars, serdeVars>>
    /\ UNCHANGED allocVars

\* ----------------------------------------- the bus: execute_and_forget
\* execute_and_forget after execute(): the ? on its result; with a
\* non-empty queue the first event is taken and handle_event is spawned as
\* a task for it; Ok(res) is returned with the task's JoinHandle, if any.
execute_and_forget ==
    /\ bpc = "bus"
    /\ execute_passed(returned) => ctx_lock = "free"
    /\ bus_result' = returned
    /\ IF ~execute_passed(returned) \/ event_queue = <<>>
       THEN /\ bpc' = "done"
            /\ UNCHANGED <<event_queue, msg, top, trace, join_handler, ctx_lock>>
       ELSE /\ ctx_lock' = pop_guard
            /\ msg' = event_queue[pop_front(event_queue)]
            /\ event_queue' = Without(event_queue, pop_front(event_queue))
            /\ top' = TRUE
            /\ trace' = Append(Append(trace,
                            T("pop", event_queue[pop_front(event_queue)].n, TRUE)),
                            T("spawn", event_queue[pop_front(event_queue)].n, TRUE))
            /\ join_handler' = "running"
            /\ bpc' = "lookup"
    /\ UNCHANGED <<txVars, hookVars, result, payload, returned, hidx, futs,
                   calls, made, spawned, waited>>
    /\ UNCHANGED <<repository, macroVars, serdeVars>>
    /\ UNCHANGED allocVars

\* A handler called in the spawned task panics: the task ends, its futures
\* are dropped, and its JoinHandle yields a JoinError.
handler_panics ==
    /\ join_handler = "running"
    /\ \/ /\ bpc = "sync"
          /\ calls' = Append(calls, Call("panic", hidx))
       \/ /\ bpc = "async"
          /\ \E h \in Handlers :
                /\ futs[h] = "running"
                /\ calls' = Append(calls, Call("panic", h))
    /\ join_handler' = "join_error"
    /\ hidx' = 0
    /\ futs' = [k \in Handlers |-> "none"]
    /\ bpc' = "done"
    /\ UNCHANGED <<txVars, hookVars, event_queue, result, payload, returned,
                   bus_result, msg, top, made, spawned, trace, waited,
                   ctx_lock>>
    /\ UNCHANGED <<repository, macroVars, serdeVars>>
    /\ UNCHANGED allocVars

\* join_handler.await.map_err(|err| BaseError::ServiceError)??: the first ?
\* returns ServiceError for a JoinError, the second the Err the task
\* returned.
join_result(j) ==
    CASE j = "join_error" -> "service_error"
      [] j = "not_found" -> "not_found"
      [] OTHER -> "ok"

\* wait_until_event_processing_done on the response of execute_and_forget:
\* with a JoinHandle it waits for the task to end, with none it returns
\* Ok(self).
wait_until_event_processing_done ==
    /\ bus_result = "ok"
    /\ waited = "none"
    /\ join_handler # "running"
    /\ waited' = IF join_handler = "none" THEN "ok" ELSE join_result(join_handler)
    /\ UNCHANGED <<bpc, txVars, hookVars, event_queue, result, payload,
                   returned, bus_result, drainVars, made, spawned, trace,
                   join_handler, ctx_lock>>
    /\ UNCHANGED <<repository, macroVars, serdeVars>>
    /\ UNCHANGED allocVars

\* ------------------------------------------------- init_event_handler!
\* The annotations a handler group is written with: #[asynchronous],
\* #[synchronous], or none.
Annotations == {"asynchronous", "synchronous", "none"}

\* One handler group of an invocation: $(#[$asynchrony])? $event:[$handler,*]
Groups ==
    [asynchrony : Annotations, event : {"OrderCreated", "StockReserved"},
     handlers : Handlers]

\* stringify!($asc): the matcher binds the annotation to $asynchrony and
\* binds nothing to $asc, so the transcriber leaves the tokens $asc as they
\* are.
stringify_asc == "$asc"

\* let mut handlers = if stringify!($asc) == "asynchronous" { Async(vec![]) }
\* else { Sync(vec![]) }; handlers.extend(..)
EventHandlers(g) ==
    [kind |-> IF stringify_asc = "asynchronous" THEN "Async" ELSE "Sync",
     n |-> g.handlers]

\* HandlerMapper::insert: the group of the topic is set, or replaced.
insert(map, topic, handlers) ==
    [t \in DOMAIN map \cup {topic} |-> IF t = topic THEN handlers ELSE map[t]]

\* The initializer of EVENT_HANDLERS: one turn of the macro's repetition.
init_event_handler ==
    /\ expanded < Len(invocation)
    /\ LET g == invocation[expanded + 1] IN
          _map' = insert(_map, g.event, EventHandlers(g))
    /\ expanded' = expanded + 1
    /\ UNCHANGED invocation
    /\ UNCHANGED <<bpc, txVars, hookVars, event_queue, result, payload,
                   returned, bus_result, drainVars, made, spawned, trace,
                   forgetVars, ctx_lock, repository>>
    /\ UNCHANGED serdeVars
    /\ UNCHANGED allocVars

\* No invocation of the macro is looked at.
InitMacro ==
    /\ invocation = <<>>
    /\ expanded = 0
    /\ _map = <<>>

\* An invocation of init_event_handler! with one to MaxGroups groups, its
\* static not yet initialized.
InitInvocation ==
    /\ invocation \in UNION {[1..k -> Groups] : k \in 1..MaxGroups}
    /\ expanded = 0
    /\ _map = <<>>

\* ------------------------------------------------- SnowFlake on the wire
\* An i64 or u64 is a word of 64 bits, held as four limbs of 16 bits, the
\* least significant first; an i64 is the two's complement reading of it.
LimbBase == 65536
Limbs == 1..4
Zero64 == [i \in Limbs |-> 0]
I64_MAX == [i \in Limbs |-> IF i = 4 THEN 32767 ELSE 65535]

\* The sign of the i64 reading of a word.
IsNegative(v) == v[4] >= 32768

\* a < b, both words read as u64.
LessU64(a, b) ==
    \E i \in Limbs : a[i] < b[i] /\ \A j \in Limbs : j > i => a[j] = b[j]

\* The magnitude of a negative i64 as a u64: the two's complement of the word.
Magnitude(v) ==
    LET n  == [i \in Limbs |-> LimbBase - 1 - v[i]]
        c1 == n[1] + 1
        c2 == n[2] + (c1 \div LimbBase)
        c3 == n[3] + (c2 \div LimbBase)
        c4 == n[4] + (c3 \div LimbBase)
    IN  <<c1 % LimbBase, c2 % LimbBase, c3 % LimbBase, c4 % LimbBase>>

\* A u64 divided by ten: its quotient and its remainder.
DivTen(v) ==
    LET a4 == v[4]
        a3 == (a4 % 10) * LimbBase + v[3]
        a2 == (a3 % 10) * LimbBase + v[2]
        a1 == (a2 % 10) * LimbBase + v[1]
    IN  [q |-> <<a1 \div 10, a2 \div 10, a3 \div 10, a4 \div 10>>, r |-> a1 % 10]

\* acc * 10 + d as a u64, and whether it overflowed 64 bits (checked_mul,
\* checked_add).
MulTenAdd(acc, d) ==
    LET c1 == acc[1] * 10 + d
        c2 == acc[2] * 10 + (c1 \div LimbBase)
        c3 == acc[3] * 10 + (c2 \div LimbBase)
        c4 == acc[4] * 10 + (c3 \div LimbBase)
    IN  [val |-> <<c1 % LimbBase, c2 % LimbBase, c3 % LimbBase, c4 % LimbBase>>,
         overflow |-> c4 \div LimbBase > 0]

DigitChars == <<"0", "1", "2", "3", "4", "5", "6", "7", "8", "9">>
DigitChar(d) == DigitChars[d + 1]
IsDigit(c) == \E d \in 0..9 : DigitChar(d) = c
DigitOf(c) == CHOOSE d \in 0..9 : DigitChar(d) = c

\* The decimal digits of a non-zero u64, the most significant first.
RECURSIVE Digits(_)
Digits(v) ==
    IF v = Zero64 THEN <<>>
    ELSE LET d == DivTen(v) IN Append(Digits(d.q), DigitChar(d.r))

\* i64::to_string: a minus sign for a negative value, then the digits of
\* its magnitude; "0" for zero.
to_string(v) ==
    IF v = Zero64 THEN <<"0">>
    ELSE IF IsNegative(v) THEN <<"-">> \o Digits(Magnitude(v))
    ELSE Digits(v)

Ok(v) == [state |-> "ok", val |-> v]
Err == [state |-> "err", val |-> Zero64]
NoResult == [state |-> "none", val |-> Zero64]

\* The digits of s from position i on, added to acc one by one; an error at
\* a character that is no digit and at an overflow of 64 bits.
RECURSIVE from_digits(_, _, _)
from_digits(s, i, acc) ==
    IF i > Len(s) THEN Ok(acc)
    ELSE IF ~IsDigit(s[i]) THEN Err
    ELSE LET m == MulTenAdd(acc, DigitOf(s[i])) IN
             IF m.overflow THEN Err ELSE from_digits(s, i + 1, m.val)

\* str::parse::<u64>: an optional plus sign, then at least one digit.
parse_u64(s) ==
    LET first == IF Len(s) > 0 /\ s[1] = "+" THEN 2 ELSE 1 IN
        IF first > Len(s) THEN Err ELSE from_digits(s, first, Zero64)

\* The bound of visit_u64: id < i64::MAX as u64.
in_range(id) == LessU64(id, I64_MAX)

visit_i64(id) == Ok(id)
visit_u64(id) == IF in_range(id) THEN Ok(id) ELSE Err
visit_str(s) ==
    LET val == parse_u64(s) IN
        IF val.state = "ok" THEN visit_u64(val.val) ELSE Err

NoWire == [kind |-> "none", text |-> <<>>, num |-> Zero64]

\* deserialize_any: the deserializer hands what it reads to the visitor
\* method of its kind.
deserialize(w) ==
    CASE w.kind = "str" -> visit_str(w.text)
      [] w.kind = "u64" -> visit_u64(w.num)
      [] w.kind = "i64" -> visit_i64(w.num)

\* The ids put on the wire: small ones, ones around each limb's carry, the
\* greatest ones, and negative ones.
Flakes ==
    {<<l1, l2, l3, l4>> : l1 \in {0, 1, 9, 10, 65534, 65535},
                          l2 \in {0, 65535}, l3 \in {0, 65535},
                          l4 \in {0, 32767, 32768, 65535}}

\* How a format hands over a number: as u64 or as i64.
NumberKinds == {"u64", "i64"}

\* Serialize for SnowFlake: the id's decimal string, as a string.
serialize ==
    /\ wire = NoWire
    /\ wire' = [kind |-> "str", text |-> to_string(flake), num |-> Zero64]
    /\ UNCHANGED <<flake, parsed>>
    /\ UNCHANGED <<allocVars, busVars>>

\* The same id written as a number by the sender; a negative one can only be
\* handed over as i64.
number(k) ==
    /\ wire = NoWire
    /\ k = "u64" => ~IsNegative(flake)
    /\ wire' = [kind |-> k, text |-> <<>>, num |-> flake]
    /\ UNCHANGED <<flake, parsed>>
    /\ UNCHANGED <<allocVars, busVars>>

\* Deserialize for SnowFlake, of what is on the wire.
deserialize_any ==
    /\ wire # NoWire
    /\ parsed = NoResult
    /\ parsed' = deserialize(wire)
    /\ UNCHANGED <<flake, wire>>
    /\ UNCHANGED <<allocVars, busVars>>

\* Nothing is on the wire.
InitSerde ==
    /\ flake = Zero64
    /\ wire = NoWire
    /\ parsed = NoResult

\* One of the ids is about to be sent.
InitFlake ==
    /\ flake \in Flakes
    /\ wire = NoWire
    /\ parsed = NoResult

NextWire ==
    \/ serialize
    \/ \E k \in NumberKinds : number(k)
    \/ deserialize_any

\* A request enters execute_and_wait: a new context with an empty queue, a
\* scope whose transaction has not begun.
InitScope ==
    /\ bpc = "begin"
    /\ executor = "new"
    /\ tx_rows = {}
    /\ tx_outbox = <<>>
    /\ db_rows = {}
    /\ db_outbox = <<>>
    /\ events = <<>>
    /\ hook_i = 0
    /\ outboxes = <<>>
    /\ sink = <<>>
    /\ event_queue = <<>>
    /\ result = "none"
    /\ payload = NoEvent
    /\ returned = "none"
    /\ bus_result = "none"
    /\ msg = NoEvent
    /\ top = FALSE
    /\ hidx = 0
    /\ futs = [h \in Handlers |-> "none"]
    /\ calls = <<>>
    /\ made = 0
    /\ spawned = 0
    /\ trace = <<>>
    /\ join_handler = "none"
    /\ waited = "none"
    /\ ctx_lock = "free"
    /\ repository = 0

\* A request, with no invocation of init_event_handler! looked at.
InitBus == InitScope /\ InitMacro /\ InitSerde

NextBus ==
    \/ execute_begin
    \/ repository_op
    \/ handler_return
    \/ _commit_hook_event
    \/ _commit_hook_add
    \/ _commit
    \/ close_committed
    \/ rollback
    \/ close_failed
    \/ process_internal_events
    \/ process_external_events
    \/ execute_and_wait
    \/ handle_event_lookup
    \/ handle_event_sync
    \/ \E h \in Handlers : handle_event_async_start(h)
    \/ \E h \in Handlers : handle_event_async_ready(h)
    \/ handle_event_pop

NextAlloc ==
    \/ \E t \in Threads : generate_call(t)
    \/ \E t \in Threads : generate_time(t)
    \/ \E t \in Threads : generate_load(t)
    \/ \E t \in Threads : race_next_milli(t)
    \/ \E t \in Threads : generate_compare_exchange(t)
    \/ \E a \in Allocs : clock_tick(a)
    \/ \E a \in Allocs : clock_back(a)

\* The process-wide allocator ID_GENERATOR with its default partition ids,
\* idle.
InitGenerator ==
    /\ owner = [t \in Threads |-> 1]
    /\ datacenter_id = [a \in Allocs |-> 1]
    /\ machine_id = [a \in Allocs |-> 1]
    /\ sequence_num = [a \in Allocs |-> with_epoch(InitTime)]
    /\ InitCallers

\* The allocator: one instance and its concurrent callers.
Init == InitAlloc /\ InitBus

Next == NextAlloc

Spec == Init /\ [][Next]_vars

\* The steps of a call of thread t after it has begun.
generate(t) ==
    \/ generate_time(t)
    \/ generate_load(t)
    \/ race_next_milli(t)
    \/ generate_compare_exchange(t)

\* The allocator under a wall clock that only advances.
NextAdvancing ==
    \/ \E t \in Threads : generate_call(t)
    \/ \E t \in Threads : generate(t)
    \/ \E a \in Allocs : clock_tick(a)

\* Every thread inside generate() keeps being scheduled, and the clock keeps
\* advancing.
Fairness ==
    /\ \A t \in Threads : WF_vars(generate(t))
    /\ WF_vars(\E a \in Allocs : clock_tick(a))

\* NumericalUniqueIdGenerator::new(datacenter_id, machine_id) with one of
\* pairs, at InitTime, and the callers of the instance.
new(pairs) ==
    /\ owner = [t \in Threads |-> 1]
    /\ \E p \in pairs :
          /\ datacenter_id = [a \in Allocs |-> p[1]]
          /\ machine_id = [a \in Allocs |-> p[2]]
    /\ \E s \in InitSequences :
          sequence_num = [a \in Allocs |-> with_epoch(InitTime) + s]
    /\ InitCallers

\* One instance, configured with one of Partitions, and its callers.
InitAdvancing == new(Partitions) /\ InitBus

\* One instance, constructed with one of NewArgs.
InitNew == new(NewArgs) /\ InitBus

\* The allocator constructed from whatever arguments its caller passes, or
\* the environment holds.
SpecNew == InitNew /\ [][NextAdvancing]_vars

\* The allocator: one instance and its concurrent callers, fairly scheduled
\* under an advancing clock.
SpecLive == InitAdvancing /\ [][NextAdvancing]_vars /\ Fairness

InitTwo == InitPair /\ InitBus

\* The allocator: two instances.
SpecPair == InitTwo /\ [][Next]_vars

InitRequest == InitGenerator /\ InitBus

\* One request through the bus.
SpecBus == InitRequest /\ [][NextBus]_vars

\* One request through the bus, its task and the handlers it awaits always
\* taking their next step.
SpecDrain == InitRequest /\ [][NextBus]_vars /\ WF_vars(NextBus)

\* The steps of a request entered through execute_and_forget, and of the
\* task it spawns.
NextForget ==
    \/ execute_begin
    \/ repository_op
    \/ handler_return
    \/ _commit_hook_event
    \/ _commit_hook_add
    \/ _commit
    \/ close_committed
    \/ rollback
    \/ close_failed
    \/ process_internal_events
    \/ process_external_events
    \/ execute_and_forget
    \/ handle_event_lookup
    \/ handle_event_sync
    \/ \E h \in Handlers : handle_event_async_start(h)
    \/ \E h \in Handlers : handle_event_async_ready(h)
    \/ handle_event_pop
    \/ handler_panics
    \/ wait_until_event_processing_done

\* One request through execute_and_forget.
SpecForget == InitRequest /\ [][NextForget]_vars

\* The steps of a scope from its begin to the end of its commit or
\* rollback, its repository switched on the way.
NextScope ==
    \/ execute_begin
    \/ repository_op
    \/ switch_repository
    \/ handler_return
    \/ _commit_hook_event
    \/ _commit_hook_add
    \/ _commit
    \/ rollback

\* An invocation of the macro in an application that has served no request.
InitRegistry == InitGenerator /\ InitScope /\ InitInvocation /\ InitSerde

\* The registry init_event_handler! builds from an invocation.
SpecRegistry == InitRegistry /\ [][init_event_handler]_vars

\* One scope, used with more than one repository.
SpecScope == InitRequest /\ [][NextScope]_vars

\* ------------------------------------------------- claims: id allocator
\* The latest id returned to thread t.
LastOf(t) ==
    LET l == log[owner[t]]
        k == CHOOSE i \in DOMAIN l :
                 l[i].thread = t /\ \A j \in DOMAIN l : l[j].thread = t => j <= i
    IN l[k]

\* Thread t is between two calls and has an id from its latest call.
Returned(t) == pc[t] = "idle" /\ Calls(t) > 0

InRange(a) == datacenter_id[a] \in 0..31 /\ machine_id[a] \in 0..31

\* C1: the ids one allocator instance (partition ids in 0..31) has returned
\* to its concurrent callers are pairwise distinct.
C1_PairwiseDistinct ==
    \A a \in Allocs : InRange(a) =>
        \A i, j \in DOMAIN log[a] : i # j => log[a][i].id # log[a][j].id

\* Every caller has all its MaxCalls ids, and the callers' returns interleave.
C1_Witness ==
    /\ \A t \in Threads : owner[t] = 1 /\ Calls(t) = MaxCalls
    /\ log[1][1].thread # log[1][2].thread
    /\ log[1][2].thread # log[1][3].thread

\* C2: a call that began after another call on the same allocator had
\* returned does not return a smaller id.
C2_NeverDecrease ==
    \A t \in Threads : Returned(t) =>
        \A i \in 1..seen[t] : log[owner[t]][i].id <= LastOf(t).id

\* A call of one thread has returned after a call of another thread that was
\* complete when it began, and the clock had been set back in between.
C2_Witness ==
    \E t \in Threads :
        /\ Returned(t) /\ seen[t] >= 1
        /\ log[owner[t]][seen[t]].thread # t
        /\ lo[t] < IdTimestamp(log[owner[t]][seen[t]].id)

\* C3: when every clock value a call read is later than the millisecond of
\* an id returned before the call began (the clock has advanced by 1 ms or
\* more in between), the call's id is greater than that id and is not that
\* id plus one.
C3_AfterPause ==
    \A t \in Threads : Returned(t) =>
        \A i \in 1..seen[t] :
            LET first == log[owner[t]][i].id
                second == LastOf(t).id
            IN lo[t] > IdTimestamp(first) =>
                   second > first /\ second # first + 1

\* The first id carries the sequence 4095 and the clock has advanced.
C3_Witness ==
    \E t \in Threads :
        /\ Returned(t)
        /\ \E i \in 1..seen[t] :
              /\ IdSequence(log[owner[t]][i].id) = MAX_SEQUENCE
              /\ lo[t] > IdTimestamp(log[owner[t]][i].id)
              /\ log[owner[t]][i].thread = t

\* C4: a call goes on to its compare-exchange (the only place it returns
\* from) only with a clock reading that is not behind the stored timestamp
\* it loaded, and no returned id carries a timestamp smaller than that of an
\* id returned before it.
C4_ClockBehind ==
    /\ \A t \in Threads :
          pc[t] \in {"race", "cas"} => timestamp[t] >= last_ts(current[t])
    /\ \A t \in Threads :
          pc[t] = "cas" => last_ts(new_id[t]) >= last_ts(current[t])
    /\ \A a \in Allocs : \A i, j \in DOMAIN log[a] :
          i < j => IdTimestamp(log[a][i].id) <= IdTimestamp(log[a][j].id)

\* A lone caller read a clock value behind the stored timestamp, waited and
\* has returned an id of the stored millisecond.
C4_Witness ==
    \E t \in Threads :
        /\ Returned(t)
        /\ \A u \in Threads \ {t} : pc[u] = "idle" /\ Calls(u) = 0
        /\ lo[t] < IdTimestamp(LastOf(t).id)
        /\ IdSequence(LastOf(t).id) # 0

\* C5: two allocator instances with distinct (datacenter_id, machine_id)
\* pairs, each component in 0..31, never return the same id.
C5_NoCollision ==
    \A a, b \in Allocs :
        (/\ a # b
         /\ InRange(a) /\ InRange(b)
         /\ <<datacenter_id[a], machine_id[a]>> # <<datacenter_id[b], machine_id[b]>>)
        => \A i \in DOMAIN log[a] : \A j \in DOMAIN log[b] :
               log[a][i].id # log[b][j].id

\* The two instances have returned ids of the same millisecond and the same
\* sequence, and their pairs differ in the machine id alone.
C5_Witness ==
    /\ datacenter_id[1] = datacenter_id[2]
    /\ machine_id[1] # machine_id[2]
    /\ \E i \in DOMAIN log[1] : \E j \in DOMAIN log[2] :
          /\ IdTimestamp(log[1][i].id) = IdTimestamp(log[2][j].id)
          /\ IdSequence(log[1][i].id) = IdSequence(log[2][j].id)


\* ------------------------------------------------ the unit of work
\* The outbox records of the events of s that are externally notifiable,
\* in the order of s.
OutboxRecords(s) ==
    LET ext == SelectSeq(s, externally_notifiable)
    IN [i \in 1..Len(ext) |-> outbox(ext[i])]

\* The mutations the command's handler made through the repository.
Mutations == {events[i].n : i \in 1..Len(events)}

\* The positions of the trace where a call of kind op was made.
Where(op) == {i \in 1..Len(trace) : trace[i].op = op}

\* C6: when the command's handler succeeded, an external reader sees in
\* every state either none of the mutations and no outbox row, or all the
\* mutations together with the outbox rows of the externally notifiable
\* events; until the executor's commit the rows of both kinds are in the
\* scope's one transaction.
C6_VisibleTogether ==
    result = "ok" =>
        /\ \/ db_rows = {} /\ db_outbox = <<>>
           \/ db_rows = Mutations /\ db_outbox = OutboxRecords(events)
        /\ bpc = "commit" =>
              tx_rows = Mutations /\ tx_outbox = OutboxRecords(events)
        /\ Cardinality(Where("executor_commit")) <= 1

C6_Witness ==
    /\ result = "ok"
    /\ Len(events) = MaxEvents
    /\ db_rows = Mutations
    /\ Len(db_outbox) = MaxEvents

\* C7: when the command's handler failed with an error that carries no
\* event, the hook never runs (no event is forwarded to the queue, nothing
\* is handed to the Outbox Sink), no mutation and no outbox row becomes
\* visible, the executor's commit is never called, and execute() does not
\* return before the rollback was called.
C7_FailureIsolated ==
    result \in {"error", "stop"} =>
        /\ Where("hook_event") = {} /\ Where("outbox_add") = {}
        /\ Where("executor_commit") = {}
        /\ sink = <<>> /\ outboxes = <<>>
        /\ event_queue = <<>>
        /\ db_rows = {} /\ db_outbox = <<>>
        /\ returned # "none" => Where("rollback") # {}
        /\ executor = "rolledback" => tx_rows = {} /\ tx_outbox = <<>>

C7_Witness ==
    /\ result = "error"
    /\ Len(events) = MaxEvents
    /\ \E i \in 1..Len(events) : events[i].ext /\ events[i].int
    /\ executor = "rolledback"
    /\ bpc = "done"

\* C8: while the hook runs, its vector holds one outbox record for each
\* externally notifiable event it has passed and the queue one copy of each
\* internally notifiable one, in the order of collection; when the hook is
\* over the Outbox Sink has been handed, once, the records of all the
\* externally notifiable events.
C8_HookRouting ==
    bpc \in {"hook", "commit", "close"} =>
        LET passed == SubSeq(events, 1, hook_i - 1) IN
        /\ outboxes = OutboxRecords(passed)
        /\ event_queue = SelectSeq(passed, internally_notifiable)
        /\ bpc = "hook" => sink = <<>>
        /\ bpc # "hook" =>
              /\ passed = events
              /\ sink = <<OutboxRecords(events)>>

C8_Witness ==
    /\ bpc = "commit"
    /\ Len(events) = MaxEvents
    /\ events[1].ext /\ events[1].int
    /\ ~events[2].ext /\ ~events[2].int
    /\ events[MaxEvents].ext /\ events[MaxEvents].int

\* C9: wherever the executor's commit is called, the hook has passed every
\* collected event and its call of the Outbox Sink has returned success
\* before, and no step of the hook comes after.
C9_HookBeforeCommit ==
    \A i \in Where("executor_commit") :
        /\ Cardinality({j \in Where("hook_event") : j < i}) = Len(events)
        /\ \E j \in Where("outbox_add") : j < i /\ trace[j].ok
        /\ \A j \in Where("outbox_add") : trace[j].ok
        /\ \A j \in Where("hook_event") \cup Where("outbox_add") : j < i

C9_Witness ==
    /\ Where("executor_commit") # {}
    /\ Len(events) = MaxEvents
    /\ bpc = "done"

\* C10: wherever an event handler is called, the executor's commit has
\* returned success before; when the commit failed no handler is called,
\* and the events the hook forwarded stay in the queue.
C10_DispatchAfterCommit ==
    /\ (calls # <<>> \/ bpc \in {"lookup", "sync", "async"}) =>
          \E j \in Where("executor_commit") :
              /\ trace[j].ok
              /\ \A i \in Where("pop") : j < i
    /\ returned = "commit_error" =>
          /\ calls = <<>> /\ Where("pop") = {}
          /\ bpc \in {"bus", "done"}
          /\ event_queue = SelectSeq(events, internally_notifiable)

C10_Witness ==
    /\ returned = "commit_error"
    /\ event_queue # <<>>
    /\ bus_result = "commit_error"

\* ------------------------------------------- the command service: errors
\* The calls execute() made after the command's handler returned.
AfterHandler ==
    LET at == CHOOSE i \in Where("handler") : TRUE
    IN SubSeq(trace, at + 1, Len(trace))

\* C11: when the command's handler returned an error that carries no event
\* (a plain error or StopSentinel), the error execute() returns is that
\* error, whatever rollback and close did.
C11_ErrorSurfaced ==
    (result \in {"error", "stop"} /\ returned # "none") => returned = result

\* C12: whenever execute() has returned an error, rollback was called on the
\* scope before.
C12_RollbackBeforeError ==
    returned \notin {"none", "ok"} => Where("rollback") # {}

\* C13: when the command's handler failed with StopSentinelWithEvent(e) and
\* execute() has returned, it has rolled back, closed the scope, passed e to
\* process_internal_events and then to process_external_events, in this
\* order, and it returned StopSentinelWithEvent(e).
C13_StopWithEvent ==
    (result = "stop_event" /\ returned # "none") =>
        /\ returned = "stop_event"
        /\ AfterHandler = << T("rollback", 0, TRUE), T("close", 0, TRUE),
                             T("internal", payload.n, TRUE),
                             T("external", payload.n, TRUE) >>

\* --------------------------------------------------- the bus: the drain
\* C14: when execute() returned Ok, what execute_and_wait returns is that
\* Ok, whatever happened to the events of the drain.
C14_ResultUnchanged ==
    (bpc = "done" /\ returned = "ok") => bus_result = "ok"

\* C15: when the drain met an event with no registered handler group, every
\* other event of the queue has still been taken from it when the drain is
\* over.
C15_NotFoundSkipsOne ==
    (bpc = "done" /\ Where("not_found") # {}) => event_queue = <<>>

\* The events taken from the queue so far, in the order they were taken.
RECURSIVE DispatchedUpTo(_)
DispatchedUpTo(i) ==
    IF i = 0 THEN <<>>
    ELSE IF trace[i].op = "pop" THEN Append(DispatchedUpTo(i - 1), trace[i].ev)
    ELSE DispatchedUpTo(i - 1)

Dispatched == DispatchedUpTo(Len(trace))

\* The events waiting in the queue, first to last.
Waiting == [i \in 1..Len(event_queue) |-> event_queue[i].n]

Increasing(s) == \A i, j \in 1..Len(s) : i < j => s[i] < s[j]

\* C16: the events are dispatched in the order they were appended to the
\* queue.  An event carries the number it got when it was created: the
\* hook forwards the collected events in that order, and an event a handler
\* appends is created at that moment, so the numbers of the events appended
\* grow in the order of appending; the events dispatched so far followed by
\* the events still waiting are in that order.  When an event has just been
\* taken, no handler of the event before it is running or left to call.
C16_FifoDispatch ==
    /\ Increasing(Dispatched \o Waiting)
    /\ bpc = "lookup" => hidx = 0 /\ \A h \in Handlers : futs[h] = "none"

C16_Witness ==
    /\ Len(Dispatched) >= 3
    /\ Dispatched[Len(Dispatched)] > Len(events)
    /\ Dispatched[2] <= Len(events)

\* The event being handled has a Sync group, and the calls are its calls.
InSyncGroup ==
    /\ bpc \in {"sync", "pop"}
    /\ msg.topic \in DOMAIN EVENT_HANDLERS
    /\ EVENT_HANDLERS[msg.topic].kind = "Sync"

\* The last handler call made for the current event.
LastCall == calls[Len(calls)]

\* C17: in a Sync group a handler that returned StopSentinel is the last
\* handler called for the event (the handlers called are those up to it, in
\* order); the sentinel never becomes the result of execute_and_wait; and
\* the next thing the drain does is take the next event of the queue, if
\* there is one, and look up its group.
C17_StopSentinel ==
    /\ [](InSyncGroup =>
            \A j \in 1..Len(calls) :
                /\ calls[j].h = j
                /\ calls[j].op = "stop" => j = Len(calls) /\ bpc = "pop")
    /\ [](returned = "ok" => bus_result \in {"none", "ok", "not_found"})
    /\ [][(InSyncGroup /\ bpc = "pop" /\ LastCall.op = "stop" /\ event_queue # <<>>)
            => /\ bpc' = "lookup"
               /\ msg' = Head(event_queue)
               /\ event_queue' = Tail(event_queue)]_vars

C17_Witness ==
    /\ InSyncGroup
    /\ bpc = "pop"
    /\ calls = <<Call("stop", 1)>>
    /\ EVENT_HANDLERS[msg.topic].n > 1
    /\ event_queue # <<>>

\* C18: in a Sync group a handler that returned StopSentinelWithEvent(e) is
\* the last handler called for the event, and e is then at the back of the
\* queue; when the drain of a committed command is over, no event carried
\* by a sentinel is left in the queue: it was taken and dispatched.
C18_StopSentinelWithEvent ==
    /\ InSyncGroup =>
          \A j \in 1..Len(calls) :
              calls[j].op = "stop_event" =>
                  /\ j = Len(calls) /\ calls[j].h = j /\ bpc = "pop"
                  /\ event_queue # <<>>
                  /\ event_queue[Len(event_queue)].sentinel
                  /\ event_queue[Len(event_queue)].n = made
    /\ (bpc = "done" /\ returned = "ok") =>
          \A i \in 1..Len(event_queue) : ~event_queue[i].sentinel

\* C19: in a Sync group the handlers are called one after the other in the
\* order of registration, each once; when no handler returned a sentinel
\* the group is over only when every handler of the group has been called,
\* whatever errors the handlers returned.
C19_SyncGroupOrder ==
    InSyncGroup =>
        /\ \A j \in 1..Len(calls) : calls[j].h = j
        /\ Len(calls) <= EVENT_HANDLERS[msg.topic].n
        /\ bpc = "sync" =>
              /\ Len(calls) = hidx - 1
              /\ \A j \in 1..Len(calls) : calls[j].op \in {"ok", "error"}
        /\ (bpc = "pop" /\ \A j \in 1..Len(calls) : calls[j].op \in {"ok", "error"}) =>
              Len(calls) = EVENT_HANDLERS[msg.topic].n

C19_Witness ==
    /\ InSyncGroup
    /\ bpc = "pop"
    /\ calls = <<Call("error", 1), Call("ok", 2)>>

\* The event being handled has an Async group, and the calls are its calls.
InAsyncGroup ==
    /\ bpc \in {"async", "pop"}
    /\ msg.topic \in DOMAIN EVENT_HANDLERS
    /\ EVENT_HANDLERS[msg.topic].kind = "Async"

\* C20: in an Async group every handler has been called for the event, in
\* order, before the future of any of them is polled; when the join is over,
\* with or without a failure, nothing is returned to the caller of
\* execute_and_wait and the next thing the drain does is take the next event
\* of the queue, if there is one, and look up its group.
C20_FanOut ==
    /\ [](InAsyncGroup =>
            LET n == EVENT_HANDLERS[msg.topic].n IN
            /\ Len(calls) >= n
            /\ \A j \in 1..Len(calls) :
                  IF j <= n THEN calls[j] = Call("call", j)
                  ELSE calls[j].op # "call")
    /\ [](returned = "ok" => bus_result \in {"none", "ok", "not_found"})
    /\ [][(bpc = "async" /\ bpc' # "async")
            => bpc' = "pop" /\ bus_result' = bus_result]_vars
    /\ [][(InAsyncGroup /\ bpc = "pop" /\ LastCall.op # "ok" /\ event_queue # <<>>)
            => /\ bpc' = "lookup"
               /\ msg' = Head(event_queue)
               /\ event_queue' = Tail(event_queue)]_vars

C20_Witness ==
    /\ InAsyncGroup
    /\ bpc = "pop"
    /\ LastCall = Call("error", 1)
    /\ \E j \in 1..Len(calls) : calls[j] = Call("start", 2)
    /\ event_queue # <<>>

\* ------------------------------------------------- the bus: the return
\* C21: when execute_and_wait has returned the command's success value, no
\* event is left in the queue of the context: every event the command
\* forwarded or a handler enqueued has been taken from it.
C21_DrainedAtReturn ==
    (bpc = "done" /\ bus_result = "ok") => event_queue = <<>>

\* C22: execute_and_forget returns what execute() returned before any
\* event handler is called; it spawns one task when the queue is not empty
\* and none when it is; wait_until_event_processing_done returns an error
\* exactly when the task ended with a JoinError, and Ok when there is no
\* task.
C22_ForgetAndWait ==
    /\ bus_result = "none" => (calls = <<>> /\ join_handler = "none")
    /\ bus_result # "none" => bus_result = returned
    /\ bus_result = "ok" =>
          Cardinality(Where("spawn")) =
              IF SelectSeq(events, internally_notifiable) # <<>> THEN 1 ELSE 0
    /\ bus_result \notin {"none", "ok"} => Where("spawn") = {}
    /\ waited # "none" => (waited # "ok" <=> join_handler = "join_error")

\* ------------------------------------------ the scope after its end
\* The calls execute() makes on the scope (dep), close apart: begin, the
\* repository, the steps of commit (the hook and the executor's commit),
\* rollback, and the processing of the current events.
ScopeOps ==
    {"begin", "repository", "hook_event", "outbox_add", "executor_commit",
     "rollback", "internal", "external"}

\* C23: once commit (the executor's) or rollback has been called on the
\* scope, execute() calls nothing more on it but close: no repository use,
\* no event processing, no second commit or rollback.
C23_NoUseAfterEnd ==
    \A i \in Where("executor_commit") \cup Where("rollback") :
        \A j \in (i + 1)..Len(trace) : trace[j].op \notin ScopeOps

\* C24: when the executor's begin failed, the scope is not used: the
\* repository is not used, the command's handler is not called, and
\* execute() has returned the error of begin with no transaction begun.
C24_BeginFailure ==
    (\E i \in Where("begin") : ~trace[i].ok) =>
        /\ Where("repository") = {}
        /\ Where("handler") = {}
        /\ executor = "new"
        /\ tx_rows = {} /\ events = <<>>
        /\ returned = "begin_error"

C24_Witness ==
    /\ \E i \in Where("begin") : ~trace[i].ok
    /\ bpc = "done"
    /\ bus_result = "begin_error"

\* ------------------------------------------- one event, end to end
\* The command's handler recorded one event and execute() returned Ok: the
\* commit succeeded.
OneEventCommitted == Len(events) = 1 /\ returned = "ok"

\* The group of msg has completed; calls holds every call made for it.
GroupCompleted(e) == msg.n = e.n /\ bpc = "pop"

\* How many times handler h has been invoked for msg: in a Sync group a
\* call and its return are one entry of calls, in an Async group the call
\* that makes the future has its own entry.
Invoked(h) ==
    IF EVENT_HANDLERS[msg.topic].kind = "Sync"
    THEN Cardinality({j \in DOMAIN calls : calls[j].h = h})
    ELSE Cardinality({j \in DOMAIN calls : calls[j] = Call("call", h)})

\* The outbox part of C25: the rows an external reader sees are the one
\* record of the event when it is externally notifiable, with its topic and
\* processed = false, and none otherwise.
OneOutboxRecord ==
    OneEventCommitted =>
        IF externally_notifiable(events[1])
        THEN /\ Len(db_outbox) = 1
             /\ db_outbox[1].ev = events[1].n
             /\ db_outbox[1].topic = events[1].topic
             /\ db_outbox[1].processed = FALSE
        ELSE db_outbox = <<>>

\* The event is taken from the queue at most once, and once when the drain
\* has ended.
PoppedOnce ==
    (OneEventCommitted /\ internally_notifiable(events[1])) =>
        LET pops == {i \in Where("pop") : trace[i].ev = events[1].n}
        IN /\ Cardinality(pops) <= 1
           /\ bpc = "done" => Cardinality(pops) = 1

\* C25 as stated: for a command that recorded one event, externally and
\* internally notifiable, after the commit one outbox record of the event
\* has been written with processed = false, and when the event's group has
\* completed every handler registered for its topic has been invoked
\* exactly once.
C25_EveryHandlerOnce ==
    /\ OneOutboxRecord
    /\ PoppedOnce
    /\ (/\ OneEventCommitted
        /\ externally_notifiable(events[1]) /\ internally_notifiable(events[1])
        /\ events[1].topic \in DOMAIN EVENT_HANDLERS
        /\ GroupCompleted(events[1])) =>
           \A h \in 1..EVENT_HANDLERS[msg.topic].n : Invoked(h) = 1

\* C25 amended: the same, for an event with a registered topic, but a
\* handler of a Sync group is not invoked when a handler before it returned
\* StopSentinel or StopSentinelWithEvent, which is then the last one
\* invoked; no handler is invoked twice, and the handlers are invoked in the
\* order of the group.
C25_HandlersUntilSentinel ==
    /\ OneOutboxRecord
    /\ PoppedOnce
    /\ (/\ OneEventCommitted
        /\ internally_notifiable(events[1])
        /\ events[1].topic \in DOMAIN EVENT_HANDLERS
        /\ GroupCompleted(events[1])) =>
           \A h \in 1..EVENT_HANDLERS[msg.topic].n :
               /\ Invoked(h) <= 1
               /\ Invoked(h) = 1 => calls[h].h = h
               /\ Invoked(h) = 0 <=>
                     /\ EVENT_HANDLERS[msg.topic].kind = "Sync"
                     /\ \E j \in DOMAIN calls :
                           calls[j].h < h /\ calls[j].op \in {"stop", "stop_event"}

C25_Witness ==
    /\ OneEventCommitted
    /\ externally_notifiable(events[1]) /\ internally_notifiable(events[1])
    /\ GroupCompleted(events[1])
    /\ calls = <<Call("stop", 1)>>
    /\ Len(db_outbox) = 1

\* ------------------------------------------------ the context's lock
\* C26: the lock of the context is held only inside the commit hook, whose
\* awaits (the sends to the queue, the outbox write through the executor)
\* do not take it: it is free wherever a handler is called, an entry point
\* or handle_event takes an event from the queue, or the current event of
\* the scope is processed; and the request is never blocked: until it has
\* returned it always has a step to take.
C26_NoLockAcrossReentry ==
    /\ ctx_lock # "free" => bpc = "hook"
    /\ bpc \in {"handler", "sync", "async", "bus", "lookup", "pop", "internal"} =>
          ctx_lock = "free"
    /\ bpc # "done" => ENABLED NextBus

C26_Witness ==
    /\ ~top /\ bpc = "sync"
    /\ spawned = MaxCascade
    /\ \E i \in Where("outbox_add") : trace[i].ok
    /\ Len(events) > 1
    /\ ctx_lock = "free"

C28_Layout ==
    \A x \in Allocs :
        InRange(x) =>
            /\ \A i \in DOMAIN log[x] :
                  LET id == log[x][i].id
                      t == IdTimestamp(id)
                      s == IdSequence(id)
                  IN /\ s \in 0..MAX_SEQUENCE
                     /\ id = t * 2^22 + datacenter_id[x] * 2^17
                               + machine_id[x] * 2^12 + s
                     /\ (id \div 2^17) % 32 = datacenter_id[x]
                     /\ (id \div 2^12) % 32 = machine_id[x]
            /\ log[x] # <<>> =>
                  /\ IdTimestamp(log[x][Len(log[x])].id) = last_ts(sequence_num[x])
                  /\ IdSequence(log[x][Len(log[x])].id) = last_seq(sequence_num[x])

\* An instance with partition ids 31 and 30 has emitted an id whose
\* sequence is 4095 and, in a later millisecond, one whose sequence is 0.
C28_Witness ==
    \E x \in Allocs :
        /\ datacenter_id[x] = 31 /\ machine_id[x] = 30
        /\ \E i, j \in DOMAIN log[x] :
              /\ IdSequence(log[x][i].id) = MAX_SEQUENCE
              /\ IdSequence(log[x][j].id) = 0
              /\ IdTimestamp(log[x][j].id) > IdTimestamp(log[x][i].id)

\* ------------------------------------- claims: allocator, sequence overflow
\* C29: once an instance has emitted the id of millisecond T with sequence
\* 4095, the id it emits next has sequence 0 and a timestamp later than T,
\* and no later id has timestamp T; a call that loaded the word (T, 4095)
\* with its clock reading T reaches its compare-exchange only with a later
\* clock reading T' and the word (T', 0); so the ids of one timestamp have
\* distinct sequences in 0..4095, at most 4096 of them.
C29_Overflow ==
    /\ \A x \in Allocs : InRange(x) =>
          \A i, j \in DOMAIN log[x] :
              /\ (j > i /\ IdSequence(log[x][i].id) = MAX_SEQUENCE)
                     => IdTimestamp(log[x][j].id) > IdTimestamp(log[x][i].id)
              /\ (j = i + 1 /\ IdSequence(log[x][i].id) = MAX_SEQUENCE)
                     => IdSequence(log[x][j].id) = 0
              /\ (j # i /\ IdTimestamp(log[x][j].id) = IdTimestamp(log[x][i].id))
                     => /\ IdSequence(log[x][j].id) # IdSequence(log[x][i].id)
                        /\ IdSequence(log[x][j].id) \in 0..MAX_SEQUENCE
    /\ \A t \in Threads :
          (/\ pc[t] = "cas"
           /\ last_seq(current[t]) = MAX_SEQUENCE
           /\ last_ts(current[t]) = timestamp[t])
              => /\ last_ts(new_id[t]) > timestamp[t]
                 /\ last_seq(new_id[t]) = 0
    /\ \A t \in Threads :
          pc[t] = "race" => /\ last_seq(current[t]) = MAX_SEQUENCE
                            /\ last_ts(current[t]) = timestamp[t]

\* A call that began when the word was (T, 4095), and read the clock at T,
\* has returned the id of a later millisecond with sequence 0.
C29_Witness ==
    \E t \in Threads :
        LET x == owner[t]
            i == seen[t]
        IN /\ Returned(t)
           /\ i >= 1 /\ i + 1 \in DOMAIN log[x]
           /\ log[x][i + 1].thread = t
           /\ Calls(t) = 1
           /\ IdSequence(log[x][i].id) = MAX_SEQUENCE
           /\ lo[t] = IdTimestamp(log[x][i].id)
           /\ IdSequence(log[x][i + 1].id) = 0
           /\ IdTimestamp(log[x][i + 1].id) > lo[t]

\* ------------------------------------- claims: allocator, construction
\* C30: every allocator that exists has both partition ids in 0..31, and
\* the timestamp and sequence fields of the ids it emits are those the call
\* stored in the word: the partition bits overlap neither.
C30_PartitionValidated ==
    \A x \in Allocs :
        /\ datacenter_id[x] \in 0..31
        /\ machine_id[x] \in 0..31
        /\ log[x] # <<>> =>
              /\ IdTimestamp(log[x][Len(log[x])].id) = last_ts(sequence_num[x])
              /\ IdSequence(log[x][Len(log[x])].id) = last_seq(sequence_num[x])

\* ------------------------------------------ claims: switch_repository

\* C31: switch_repository leaves the executor, its transaction and the
\* context as they are and calls no begin, commit or rollback (the trace is
\* unchanged), and the new repository holds the events the previous one
\* held; so the repository of the scope holds, in order, one event for each
\* repository operation made through any of its repositories, and once the
\* commit hook has run each of them has been processed exactly once.
C31_SwitchRepository ==
    /\ [][repository' # repository =>
             /\ events' = events
             /\ executor' = executor /\ tx_rows' = tx_rows /\ tx_outbox' = tx_outbox
             /\ event_queue' = event_queue
             /\ trace' = trace /\ bpc' = bpc]_vars
    /\ [](/\ Len(events) = Cardinality(Where("repository"))
          /\ \A i \in DOMAIN events :
                \E j \in Where("repository") :
                    /\ trace[j].ev = events[i].n
                    /\ Cardinality({k \in Where("repository") : k <= j}) = i
          /\ bpc \in {"commit", "close"} =>
                \A j \in Where("repository") :
                    Cardinality({k \in Where("hook_event") : trace[k].ev = trace[j].ev}) = 1)

\* A scope that was switched to another repository and holds two events,
\* one to be recorded in the outbox and one to be forwarded, has committed.
C31_Witness ==
    /\ repository = 1
    /\ Len(events) = 2
    /\ externally_notifiable(events[1]) /\ internally_notifiable(events[2])
    /\ bpc = "close"
    /\ executor = "committed"
    /\ Len(db_outbox) = 1
    /\ Len(event_queue) = 1

\* ------------------------------------ claims: stop-with-event in a cascade
\* C32: when a handler of the current event, in a Sync or an Async group,
\* has returned StopSentinelWithEvent(e), e is at the back of the queue and
\* the drain goes on to take the next event.
C32_StopWithEventRequeued ==
    (InSyncGroup \/ InAsyncGroup) =>
        \A j \in DOMAIN calls :
            calls[j].op = "stop_event" =>
                /\ bpc = "pop"
                /\ event_queue # <<>>
                /\ event_queue[Len(event_queue)].sentinel

\* ------------------------------------------- claims: init_event_handler!
\* C33: the group EVENT_HANDLERS holds for a topic is an Async group when
\* the group was written with #[asynchronous], and a Sync group when it was
\* written with #[synchronous] or with no annotation (of two groups written
\* for one topic the later one is held); it has the handlers written.
C33_AnnotationSetsKind ==
    \A i \in 1..expanded :
        (\A j \in (i + 1)..expanded : invocation[j].event # invocation[i].event)
            => /\ invocation[i].event \in DOMAIN _map
               /\ _map[invocation[i].event].n = invocation[i].handlers
               /\ _map[invocation[i].event].kind =
                      IF invocation[i].asynchrony = "asynchronous"
                      THEN "Async" ELSE "Sync"

\* ------------------------------------------------ claims: the drain ends
\* C34: with every handler returning and the events of a request bounded,
\* a drain that has started ends; no event is popped twice; and the drain
\* ends at a pop that found the queue empty, so nothing is left in the queue
\* when it is over.
C34_DrainTerminates ==
    /\ (bpc \in {"lookup", "sync", "async", "pop"}) ~> (bpc = "done")
    /\ [](\A i, j \in Where("pop") : i # j => trace[i].ev # trace[j].ev)
    /\ []((bpc = "done" /\ Where("pop") # {}) => event_queue = <<>>)

\* ------------------------------------- claims: no drain after an error
\* C35: when execute() has returned an error, no event is taken from the
\* queue and no event handler is called; what the bus returns is that
\* error; and the event that process_internal_events put in the queue for a
\* StopSentinelWithEvent of the command's handler is still there, alone.
C35_NoDrainAfterError ==
    returned \notin {"none", "ok"} =>
        /\ calls = <<>>
        /\ Where("pop") = {}
        /\ bpc \in {"bus", "done"}
        /\ bpc = "done" => bus_result = returned
        /\ (\E i \in Where("internal") : trace[i].ok) => event_queue = <<payload>>

\* The bus has returned StopSentinelWithEvent(e) of the command's handler;
\* e, whose topic has a handler group, is in the queue.
C35_Witness ==
    /\ bpc = "done"
    /\ result = "stop_event"
    /\ bus_result = "stop_event"
    /\ event_queue = <<payload>>
    /\ payload.topic \in DOMAIN EVENT_HANDLERS
    /\ calls = <<>>

\* ------------------------------------- claims: a failed outbox write
\* The call of the Outbox Sink by the commit hook has failed.
OutboxWriteFailed == \E i \in Where("outbox_add") : ~trace[i].ok

\* C36 as stated: when the outbox write of the commit hook has failed,
\* commit() has returned that error, the executor's commit was not called,
\* and the queue of the context is as it was before commit(), empty: no
\* internally notifiable event of the scope has been forwarded.
C36_QueueUntouched ==
    OutboxWriteFailed =>
        /\ returned = "outbox_error"
        /\ Where("executor_commit") = {}
        /\ event_queue = <<>>

\* C36, amended: when the outbox write of the commit hook has failed,
\* commit() has returned that error, the executor's commit was not called
\* and nothing of the transaction is visible, but every internally
\* notifiable event of the scope has been forwarded to the queue, in order:
\* the hook forwards them before it writes the outbox.
C36_ForwardedBeforeWrite ==
    OutboxWriteFailed =>
        /\ returned = "outbox_error"
        /\ Where("executor_commit") = {}
        /\ executor = "begun"
        /\ db_rows = {} /\ db_outbox = <<>> /\ tx_outbox = <<>>
        /\ event_queue = SelectSeq(events, internally_notifiable)
        /\ \A i \in Where("hook_event") : \A j \in Where("outbox_add") : i < j

\* The outbox write failed for a scope that collected an internally
\* notifiable event and an externally notifiable one.
C36_Witness ==
    /\ OutboxWriteFailed
    /\ returned = "outbox_error"
    /\ \E i \in DOMAIN events : internally_notifiable(events[i])
    /\ \E i \in DOMAIN events : externally_notifiable(events[i])
    /\ event_queue # <<>>
    /\ outboxes # <<>>

\* ----------------------------------------- claims: fan-out completion
\* C37: when the join of an Async group is over, every handler of the
\* group has run to its end for the event and returned, whether or not
\* another handler of the group returned an error before.
C37_FanOutCompletes ==
    (InAsyncGroup /\ bpc = "pop") =>
        \A h \in 1..EVENT_HANDLERS[msg.topic].n :
            \E j \in DOMAIN calls : calls[j].h = h /\ calls[j].op \in Outcomes

\* ------------------------------------------ claims: the allocator's word
\* C38: a step that changes the word of an instance makes it greater, is the
\* compare-exchange of one caller, which returns with it, and appends to
\* the ids returned exactly one id, of that caller, whose timestamp and
\* sequence are those of the new word; no id is returned by any other step;
\* and a caller whose compare-exchange fails returns nothing, leaves the word
\* as it is and goes round the loop.
C38_WordIncreases ==
    /\ [][\A a \in Allocs :
             sequence_num'[a] # sequence_num[a] =>
                 /\ sequence_num'[a] > sequence_num[a]
                 /\ Len(log'[a]) = Len(log[a]) + 1
                 /\ SubSeq(log'[a], 1, Len(log[a])) = log[a]
                 /\ LET r == log'[a][Len(log'[a])] IN
                       /\ IdTimestamp(r.id) = last_ts(sequence_num'[a])
                       /\ IdSequence(r.id) = last_seq(sequence_num'[a])
                       /\ owner[r.thread] = a
                       /\ pc[r.thread] = "cas" /\ pc'[r.thread] = "idle"
                       /\ sequence_num[a] = current[r.thread]
                       /\ sequence_num'[a] = new_id[r.thread]]_vars
    /\ [][\A a \in Allocs :
             log'[a] # log[a] => sequence_num'[a] # sequence_num[a]]_vars
    /\ [][\A t \in Threads :
             (pc[t] = "cas" /\ pc'[t] # "cas" /\ sequence_num[owner[t]] # current[t]) =>
                 /\ pc'[t] = "time"
                 /\ sequence_num' = sequence_num
                 /\ log' = log]_vars

\* A caller's compare-exchange has failed after the other caller's
\* succeeded, and the instance has returned two ids since.
C38_Witness ==
    \E t \in Threads :
        /\ pc[t] = "idle"
        /\ Calls(t) = 1
        /\ Len(log[owner[t]]) >= seen[t] + 2
        /\ log[owner[t]][Len(log[owner[t]])].thread = t

\* --------------------------------------------- claims: SnowFlake on the wire
\* A SnowFlake sent by an application that has served no request.
InitWire == InitGenerator /\ InitScope /\ InitMacro /\ InitFlake

\* One SnowFlake serialized, or written as a number, and deserialized.
SpecWire == InitWire /\ [][NextWire]_vars

\* C39: whatever deserialize returns for an id v with 0 <= v <= i64::MAX,
\* read from its decimal string or from the number, is Ok(v).
C39_RoundTrip ==
    (~IsNegative(flake) /\ parsed # NoResult) => parsed = Ok(flake)

====
